---- MODULE Spec2Model ----
(***************************************************************************)
(* The resilient API client of the dashboard (lib/apiClient): credential   *)
(* store, refresh coordination, request executor and retry loop, as a      *)
(* state machine.  One step of the model is one run-to-completion turn of  *)
(* the single-threaded event loop: a caller invoking the client, a         *)
(* transport call settling, a backoff timer or a timeout timer firing.     *)
(***************************************************************************)
EXTENDS Integers, Sequences, FiniteSets, TLC

\* ---------------------------------------------------------------- bounds
NReq == 2         \* logical calls that can be in flight at once
MaxRetries == 1   \* largest value of config.retries explored
MaxTokenId == 2   \* credentials the server hands out in one run
MaxTicks == 1     \* clock advances in one run
DeepRetries == 3  \* largest config.retries of the single-call specification
ProbeSpan == 10   \* instants around the expiry boundary that are probed

\* ------------------------------------------------------------- constants
Null == 0                          \* null / undefined token (falsy)
Undefined == 0 - 1                 \* expiresAt read from a record without the field
NoPromise == 0                     \* refreshPromise = null
DefaultRetryDelay == 1000          \* DEFAULT_CONFIG.retryDelay
MsPerSecond == 1000                \* expiresIn * 1000
SkewMargin == 5 * 60 * 1000        \* 5 minutes buffer
TickMs == (3600 * MsPerSecond) - SkewMargin
ExpiresInChoices == {300, 3600}    \* lifetimes (s) the server grants
RetryDelayChoices == {500, DefaultRetryDelay}
Statuses == {200, 400, 401, 403, 500}
Slots == 1..NReq

VARIABLES
    now,             \* Date.now(), ms
    config,          \* this.config: retries, retryDelay, enableAuth
    accessToken,     \* this.accessToken
    refreshToken,    \* this.refreshToken
    tokenExpiresAt,  \* this.tokenExpiresAt
    refreshPromise,  \* this.refreshPromise: NoPromise or the slot that started it
    storage,         \* localStorage item 'namaste_auth_tokens'
    req,             \* per slot: the position of one makeRequest invocation
    issued,          \* credentials the server has issued so far
    lastStoreOp,     \* the last store operation that completed
    probe            \* one isTokenExpired evaluation: inputs and result

vars == <<now, config, accessToken, refreshToken, tokenExpiresAt,
          refreshPromise, storage, req, issued, lastStoreOp, probe>>

\* ------------------------------------------------------ durable storage
\* A stored item is absent, text that JSON.parse rejects, or the text of a
\* JSON object, kept as its sequence of <<key, value>> members.
AbsentItem == [kind |-> "absent", members |-> <<>>]
GarbageItem == [kind |-> "garbage", members |-> <<>>]
JSONText(members) == [kind |-> "json", members |-> members]

\* (mutant) a serialisation that loses the expiry member
JSONstringify_dropsExpiry(tokens) ==
    JSONText(<< <<"accessToken", tokens.accessToken>>,
                <<"refreshToken", tokens.refreshToken>> >>)

\* JSON.stringify(tokens) of the object literal built in saveTokensToStorage
JSONstringify(tokens) ==
    JSONText(<< <<"accessToken", tokens.accessToken>>,
                <<"refreshToken", tokens.refreshToken>>,
                <<"expiresAt", tokens.expiresAt>> >>)

\* JSON.parse(text) throws on text that is not JSON
JSONparseThrows(item) == item.kind = "garbage"

\* parsed.<key>: the member's value, undefined when the object has no such member
Member(item, key, undef) ==
    IF \E i \in 1..Len(item.members) : item.members[i][1] = key
    THEN LET i == CHOOSE j \in 1..Len(item.members) : item.members[j][1] = key
         IN  item.members[i][2]
    ELSE undef

Keys(item) == {item.members[i][1] : i \in 1..Len(item.members)}

\* ----------------------------------------------------- credential store
\* The four places a store operation writes, as one value.
StoreOf(a, r, e, st) ==
    [accessToken |-> a, refreshToken |-> r, tokenExpiresAt |-> e, storage |-> st]

\* the field initialisers of the class
FreshFields(st) == StoreOf(Null, Null, 0, st)

\* (mutant) the in-memory fields are reset, the durable record is left
clearTokens_memoryOnly(s) == StoreOf(Null, Null, 0, s.storage)

clearTokens(s) == StoreOf(Null, Null, 0, AbsentItem)

loadTokensFromStorage(s) ==
    IF s.storage.kind = "absent" THEN s
    ELSE IF JSONparseThrows(s.storage) THEN clearTokens(s)
    ELSE StoreOf(Member(s.storage, "accessToken", Null),
                 Member(s.storage, "refreshToken", Null),
                 Member(s.storage, "expiresAt", Undefined),
                 s.storage)

\* (mutant) the in-memory fields are assigned before localStorage.setItem
saveTokensToStorage_memoryFirst(s, authResponse, clock, setItemOk) ==
    LET tokens == [accessToken |-> authResponse.accessToken,
                   refreshToken |-> authResponse.refreshToken,
                   expiresAt |-> clock + (authResponse.expiresIn * MsPerSecond)]
    IN  StoreOf(authResponse.accessToken, authResponse.refreshToken,
                tokens.expiresAt,
                IF setItemOk THEN JSONstringify(tokens) ELSE s.storage)

\* authResponse: accessToken, refreshToken, expiresIn (s).  setItemOk is
\* whether localStorage.setItem returns (it throws when the quota is hit).
saveTokensToStorage(s, authResponse, clock, setItemOk) ==
    LET tokens == [accessToken |-> authResponse.accessToken,
                   refreshToken |-> authResponse.refreshToken,
                   expiresAt |-> clock + (authResponse.expiresIn * MsPerSecond)]
    IN  IF setItemOk
        THEN StoreOf(authResponse.accessToken, authResponse.refreshToken,
                     tokens.expiresAt, JSONstringify(tokens))
        ELSE s

\* (mutant) the comparison made without the margin
isTokenExpired_noMargin(clock, expiresAt) ==
    IF expiresAt = Undefined THEN FALSE
    ELSE clock >= expiresAt

\* (mutant) the comparison made strict
isTokenExpired_strict(clock, expiresAt) ==
    IF expiresAt = Undefined THEN FALSE
    ELSE clock > expiresAt - SkewMargin

\* Date.now() >= tokenExpiresAt - 5 minutes; a comparison with NaN is false
isTokenExpired(clock, expiresAt) ==
    IF expiresAt = Undefined THEN FALSE
    ELSE clock >= expiresAt - SkewMargin

isAuthenticatedIn(s, clock) ==
    s.accessToken # Null /\ ~isTokenExpired(clock, s.tokenExpiresAt)

CurStore == StoreOf(accessToken, refreshToken, tokenExpiresAt, storage)
isAuthenticated == isAuthenticatedIn(CurStore, now)

\* A store operation `op` has left the store as s
SetStore(s, op) ==
    /\ lastStoreOp' = op
    /\ accessToken' = s.accessToken
    /\ refreshToken' = s.refreshToken
    /\ tokenExpiresAt' = s.tokenExpiresAt
    /\ storage' = s.storage

\* the AuthResponse of the n-th credential the server issues
AuthResponse(n, expiresIn) ==
    [accessToken |-> n, refreshToken |-> n, expiresIn |-> expiresIn]


\* ------------------------------------------------ transport and parsing
\* What one fetch + parseResponse produces.  A response has a status and a
\* body that response.json()/text() decodes or not; without a response the
\* fetch rejected (network failure).  An aborted fetch is produced by the
\* timeout timer, not by the transport.
Response(status, decodes) == [kind |-> "response", status |-> status, decodes |-> decodes]
NetworkFailure == [kind |-> "network", status |-> 0, decodes |-> FALSE]
Outcomes == {Response(st, d) : st \in Statuses, d \in BOOLEAN} \cup {NetworkFailure}

\* The errors a catch block of makeRequest can see
NoError == [name |-> "none", status |-> 0]
APIError(status) == [name |-> "APIError", status |-> status]
SyntaxError == [name |-> "SyntaxError", status |-> 0]
TypeError == [name |-> "TypeError", status |-> 0]
TimeoutError == [name |-> "TimeoutError", status |-> 0]

ResponseOk(status) == status >= 200 /\ status <= 299

\* fetch then parseResponse: NoError when responseData is returned, else
\* the error thrown.  The body is decoded before response.ok is looked at.
parseResponse(o) ==
    IF o.kind = "network" THEN TypeError
    ELSE IF ~o.decodes THEN SyntaxError
    ELSE IF ~ResponseOk(o.status) THEN APIError(o.status)
    ELSE NoError

\* the test guarding `throw error` in the catch block of makeRequest
IsNotRetried(error) ==
    /\ error.name = "APIError"
    /\ (error.status = 401 \/ error.status = 403
        \/ (error.status >= 400 /\ error.status < 500))

RECURSIVE Pow2(_)
Pow2(n) == IF n <= 0 THEN 1 ELSE 2 * Pow2(n - 1)

\* (mutant) a backoff that grows by one base delay per attempt
BackoffDelay_linear(cfg, attempt) == cfg.retryDelay * (attempt + 1)

\* const delay = this.config.retryDelay * Math.pow(2, attempt)
BackoffDelay(cfg, attempt) == cfg.retryDelay * Pow2(attempt)

\* The catch block for loop index `attempt`, then the loop's increment and
\* guard: where the invocation goes after a failed attempt.
Catch(cfg, attempt, error) ==
    IF IsNotRetried(error)
    THEN [to |-> "throw", attempt |-> attempt, delay |-> 0]
    ELSE IF attempt < cfg.retries
    THEN [to |-> "delay", attempt |-> attempt, delay |-> BackoffDelay(cfg, attempt)]
    ELSE IF attempt + 1 <= cfg.retries
    THEN [to |-> "fetch", attempt |-> attempt + 1, delay |-> 0]
    ELSE [to |-> "throw", attempt |-> attempt + 1, delay |-> 0]

\* (mutant) a loop that stops one attempt early: attempt < retries
LoopGuard_short(cfg, attempt) == attempt + 1 < cfg.retries

\* The loop's increment and guard after the backoff timer fired
LoopGuard(cfg, attempt) == attempt + 1 <= cfg.retries


\* ------------------------------------------------------------ the slots
\* One slot is one caller's makeRequest invocation.  While the caller's
\* getValidToken runs the refresh it started, the slot holds the position
\* of that inner makeRequest (url = "/auth/refresh"); afterwards, of its own.
NoResult == [kind |-> "none", err |-> NoError]
Succeeded == [kind |-> "ok", err |-> NoError]
Failed(error) == [kind |-> "fail", err |-> error]

\* How a slot came to send its request after a refresh it awaited: the
\* outcome of that refresh.  (Without a refresh, see getValidToken and
\* Lookup.)
Via(outcome) ==
    IF outcome.kind = "ok" THEN "refreshed"
    ELSE IF outcome.err = APIError(401) THEN "refresh401"
    ELSE "refreshFailed"

\* this.config.retries and retryDelay as they were when the call was issued
NoConfig == [retries |-> 0, retryDelay |-> 0]
ConfigAtIssue == [retries |-> config.retries, retryDelay |-> config.retryDelay]

IdleReq ==
    [pc |-> "idle", url |-> "resource", attempt |-> 0, calls |-> 0,
     aborted |-> FALSE, hdr |-> Null, lastError |-> NoError, delay |-> 0,
     waits |-> NoPromise, result |-> NoResult, touched |-> FALSE,
     via |-> "direct", cfg |-> NoConfig, dest |-> "resource"]

InFlight(r) == r.pc \notin {"idle", "done"}

\* (mutant) a request for which no credential is available is failed
Begin_failWithoutToken(r, token, via) ==
    IF token = Null
    THEN [IdleReq EXCEPT !.pc = "done", !.result = [kind |-> "fail", err |-> APIError(401)]]
    ELSE [r EXCEPT !.pc = "fetch", !.url = r.dest, !.attempt = 0, !.calls = 1,
                   !.aborted = FALSE, !.hdr = token, !.lastError = NoError,
                   !.delay = 0, !.waits = NoPromise, !.via = via]

\* Lines 177-201 for a request to the caller's url (r.dest): the headers are
\* built with `token`, the timeout signal is created, the loop is entered
\* and the first fetch is made.
Begin(r, token, via) ==
    [r EXCEPT !.pc = "fetch", !.url = r.dest, !.attempt = 0, !.calls = 1,
              !.aborted = FALSE, !.hdr = token, !.lastError = NoError,
              !.delay = 0, !.waits = NoPromise, !.via = via]

\* performTokenRefresh up to its await: makeRequest for /auth/refresh with
\* skipAuth, so no credential lookup, and the first fetch is made.
BeginRefresh(r) ==
    [r EXCEPT !.pc = "fetch", !.url = "/auth/refresh", !.attempt = 0, !.calls = 1,
              !.aborted = FALSE, !.hdr = Null, !.lastError = NoError,
              !.delay = 0, !.waits = NoPromise]

Attach(r, promise) == [r EXCEPT !.pc = "await", !.waits = promise]

\* The invocation has settled with `calls` fetches made: its result is kept,
\* with the loop index it ended at
DoneWith(r, result, calls) ==
    [IdleReq EXCEPT !.pc = "done", !.result = result, !.attempt = r.attempt,
                    !.calls = calls, !.touched = r.touched, !.dest = r.dest]

\* -------------------------------------------------- refresh coordinator
\* (mutant) no test of the refresh token
refreshAccessToken_noTokenTest ==
    IF refreshPromise # NoPromise THEN "attach" ELSE "start"

\* (mutant) no test of the in-flight handle
refreshAccessToken_noDedup ==
    IF refreshToken = Null THEN "throw" ELSE "start"

\* refreshAccessToken up to its first await
refreshAccessToken ==
    IF refreshToken = Null THEN "throw"
    ELSE IF refreshPromise # NoPromise THEN "attach"
    ELSE "start"

\* (mutant) the refresh path is taken whether or not the token is expired
getValidToken_alwaysRefresh ==
    IF ~config.enableAuth \/ accessToken = Null
    THEN [act |-> "return", token |-> Null, via |-> "noCredential"]
    ELSE IF refreshAccessToken = "throw"
    THEN [act |-> "return", token |-> Null, via |-> "noRefreshToken"]
    ELSE [act |-> refreshAccessToken, token |-> Null, via |-> "direct"]

\* getValidToken up to its first await: the token it returns at once, or
\* what refreshAccessToken does.  `via` names the return taken: the early
\* return of null, the catch of the error refreshAccessToken threw at once,
\* or the return of this.accessToken.
getValidToken ==
    IF ~config.enableAuth \/ accessToken = Null
    THEN [act |-> "return", token |-> Null, via |-> "noCredential"]
    ELSE IF isTokenExpired(now, tokenExpiresAt)
    THEN (IF refreshAccessToken = "throw"
          THEN [act |-> "return", token |-> Null, via |-> "noRefreshToken"]
          ELSE [act |-> refreshAccessToken, token |-> Null, via |-> "direct"])
    ELSE [act |-> "return", token |-> accessToken, via |-> "direct"]

\* (mutant) the request's skipAuth option is not looked at
Lookup_ignoresSkip(skipAuth) ==
    IF config.enableAuth
    THEN getValidToken
    ELSE [act |-> "return", token |-> Null, via |-> "skipped"]

\* makeRequest lines 169-175: the credential lookup is made only when
\* authentication is enabled and the request does not skip it
Lookup(skipAuth) ==
    IF config.enableAuth /\ ~skipAuth
    THEN getValidToken
    ELSE [act |-> "return", token |-> Null, via |-> "skipped"]


\* --------------------------------------------------------------- actions
StoreVars == <<accessToken, refreshToken, tokenExpiresAt, storage, lastStoreOp>>

\* (mutant) the starter's finally block does not clear the handle
RefreshSettled_keepsHandle(p, s, outcome) ==
    /\ SetStore(s, IF outcome.kind = "ok" THEN "save" ELSE "clear")
    /\ refreshPromise' = refreshPromise
    /\ req' = [q \in Slots |->
                 IF q = p \/ (req[q].pc = "await" /\ req[q].waits = p)
                 THEN Begin(req[q],
                            IF outcome.kind = "ok" THEN s.accessToken ELSE Null,
                            Via(outcome))
                 ELSE req[q]]

\* (mutant) the resumed callers attach the token read before the refresh
RefreshSettled_staleToken(p, s, outcome) ==
    /\ SetStore(s, IF outcome.kind = "ok" THEN "save" ELSE "clear")
    /\ refreshPromise' = NoPromise
    /\ req' = [q \in Slots |->
                 IF q = p \/ (req[q].pc = "await" /\ req[q].waits = p)
                 THEN Begin(req[q], accessToken, Via(outcome))
                 ELSE req[q]]

\* The refresh started by slot p has settled with store `s` written by
\* performTokenRefresh: the starter's finally clears the handle, and the
\* starter and every caller attached to the handle resume in getValidToken,
\* which returns this.accessToken after a success and null after a
\* failure; each then builds its headers and makes its first fetch.
RefreshSettled(p, s, outcome) ==
    /\ SetStore(s, IF outcome.kind = "ok" THEN "save" ELSE "clear")
    /\ refreshPromise' = NoPromise
    /\ req' = [q \in Slots |->
                 IF q = p \/ (req[q].pc = "await" /\ req[q].waits = p)
                 THEN Begin(req[q],
                            IF outcome.kind = "ok" THEN s.accessToken ELSE Null,
                            Via(outcome))
                 ELSE req[q]]

\* performTokenRefresh after its makeRequest returned the server's
\* AuthResponse: saveTokensToStorage(response.data)
RefreshReturned(p, expiresIn, setItemOk) ==
    /\ issued < MaxTokenId
    /\ issued' = issued + 1
    /\ RefreshSettled(p,
           saveTokensToStorage(CurStore, AuthResponse(issued + 1, expiresIn),
                               now, setItemOk),
           Succeeded)

\* (mutant) a logout without its finally block
AfterSettle_noFinally(p) == UNCHANGED StoreVars

\* The caller of slot p resumes once its makeRequest has settled:
\* AuthService.logout runs clearAuth in its finally block, whatever the
\* outcome; the other callers leave the credential store alone.
AfterSettle(p) ==
    IF req[p].dest = "auth/logout"
    THEN SetStore(clearTokens(CurStore), "clear")
    ELSE UNCHANGED StoreVars

\* makeRequest of slot p returns a response
Returned(p) ==
    IF req[p].url # "/auth/refresh"
    THEN /\ req' = [req EXCEPT ![p] = DoneWith(@, Succeeded, @.calls)]
         /\ AfterSettle(p)
         /\ UNCHANGED <<refreshPromise, issued>>
    ELSE \E expiresIn \in ExpiresInChoices, setItemOk \in BOOLEAN :
             RefreshReturned(p, expiresIn, setItemOk)

\* (mutant) a 401 on the caller's resource clears the stored credential
Thrown_clearsOn401(p, error, attempt, calls) ==
    IF req[p].url # "/auth/refresh"
    THEN /\ req' = [req EXCEPT ![p] =
                      DoneWith([@ EXCEPT !.attempt = attempt], Failed(error), calls)]
         /\ IF error = APIError(401)
            THEN SetStore(clearTokens(CurStore), "clear")
            ELSE AfterSettle(p)
         /\ UNCHANGED <<refreshPromise, issued>>
    ELSE /\ RefreshSettled(p, clearTokens(CurStore), Failed(error))
         /\ UNCHANGED issued

\* (mutant) the invocation ends without delivering the error
Thrown_swallows(p, error, attempt, calls) ==
    IF req[p].url # "/auth/refresh"
    THEN /\ req' = [req EXCEPT ![p] =
                      DoneWith([@ EXCEPT !.attempt = attempt], NoResult, calls)]
         /\ AfterSettle(p)
         /\ UNCHANGED <<refreshPromise, issued>>
    ELSE /\ RefreshSettled(p, clearTokens(CurStore), Failed(error))
         /\ UNCHANGED issued

\* makeRequest of slot p throws `error` at loop index `attempt`, `calls`
\* fetches made
Thrown(p, error, attempt, calls) ==
    IF req[p].url # "/auth/refresh"
    THEN /\ req' = [req EXCEPT ![p] =
                      DoneWith([@ EXCEPT !.attempt = attempt], Failed(error), calls)]
         /\ AfterSettle(p)
         /\ UNCHANGED <<refreshPromise, issued>>
    ELSE /\ RefreshSettled(p, clearTokens(CurStore), Failed(error))
         /\ UNCHANGED issued

\* Attempt `attempt` of slot p failed with `error`, the signal being
\* `aborted` and `calls` fetches made so far
AttemptFailed(p, attempt, error, aborted, calls) ==
    LET c == Catch(config, attempt, error)
    IN  IF c.to = "throw"
        THEN Thrown(p, error, c.attempt, calls)
        ELSE /\ req' = [req EXCEPT ![p] =
                          [@ EXCEPT !.pc = c.to, !.attempt = c.attempt,
                                    !.delay = c.delay, !.lastError = error,
                                    !.aborted = aborted,
                                    !.calls = IF c.to = "fetch" THEN calls + 1 ELSE calls]]
             /\ UNCHANGED <<StoreVars, refreshPromise, issued>>

\* A caller invokes the client (get/post/put/delete/patch) for url `dest`:
\* makeRequest runs up to its first suspension.
IssueTo(p, skipAuth, dest) ==
    /\ req[p].pc \in {"idle", "done"}
    /\ LET g == Lookup(skipAuth)
           r == [IdleReq EXCEPT !.touched = FALSE, !.cfg = ConfigAtIssue,
                                !.dest = dest]
       IN  CASE g.act = "return" ->
                  /\ req' = [req EXCEPT ![p] = Begin(r, g.token, g.via)]
                  /\ UNCHANGED refreshPromise
             [] g.act = "attach" ->
                  /\ req' = [req EXCEPT ![p] = Attach(r, refreshPromise)]
                  /\ UNCHANGED refreshPromise
             [] g.act = "start" ->
                  /\ req' = [req EXCEPT ![p] = BeginRefresh(r)]
                  /\ refreshPromise' = p
    /\ UNCHANGED <<now, config, StoreVars, issued, probe>>

\* a request for one of the application's resources
Issue(p, skipAuth) == IssueTo(p, skipAuth, "resource")

\* AuthService.logout(): apiClient.post('auth/logout'), then clearAuth in
\* the finally block (see AfterSettle)
Logout(p) == IssueTo(p, FALSE, "auth/logout")

\* The transport call of slot p settles with outcome o, and the response is
\* parsed.
FetchSettle(p, o) ==
    /\ req[p].pc = "fetch"
    /\ LET error == parseResponse(o)
       IN  IF error = NoError
           THEN Returned(p)
           ELSE AttemptFailed(p, req[p].attempt, error, req[p].aborted, req[p].calls)
    /\ UNCHANGED <<now, config, probe>>

\* The backoff timer of slot p fires: the loop's increment and guard, then
\* the next fetch with the same requestOptions; with the signal already
\* aborted that fetch rejects at once.
DelayElapsed(p) ==
    /\ req[p].pc = "delay"
    /\ IF LoopGuard(config, req[p].attempt)
       THEN IF req[p].aborted
            THEN AttemptFailed(p, req[p].attempt + 1, TimeoutError, TRUE,
                               req[p].calls + 1)
            ELSE /\ req' = [req EXCEPT ![p] =
                              [@ EXCEPT !.pc = "fetch", !.attempt = @ + 1,
                                        !.calls = @ + 1, !.delay = 0,
                                        !.lastError = NoError]]
                 /\ UNCHANGED <<StoreVars, refreshPromise, issued>>
       ELSE Thrown(p, req[p].lastError, req[p].attempt + 1, req[p].calls)
    /\ UNCHANGED <<now, config, probe>>

\* The timer of AbortSignal.timeout of slot p fires while its invocation is
\* in the loop: a pending fetch rejects; during a backoff only the signal
\* changes.
Timeout(p) ==
    /\ req[p].pc \in {"fetch", "delay"}
    /\ ~req[p].aborted
    /\ IF req[p].pc = "fetch"
       THEN AttemptFailed(p, req[p].attempt, TimeoutError, TRUE, req[p].calls)
       ELSE /\ req' = [req EXCEPT ![p].aborted = TRUE]
            /\ UNCHANGED <<StoreVars, refreshPromise, issued>>
    /\ UNCHANGED <<now, config, probe>>

\* setAuthTokens(authResponse), as the login flows call it
SetAuthTokens(expiresIn, setItemOk) ==
    /\ issued < MaxTokenId
    /\ issued' = issued + 1
    /\ SetStore(saveTokensToStorage(CurStore, AuthResponse(issued + 1, expiresIn),
                                    now, setItemOk), "save")
    /\ UNCHANGED <<now, config, refreshPromise, req, probe>>

ClearAuth ==
    /\ SetStore(clearTokens(CurStore), "clear")
    /\ UNCHANGED <<now, config, refreshPromise, req, issued, probe>>

\* updateConfig(newConfig): this.config is replaced; in-flight invocations
\* read this.config again at each loop test.  `touched` marks the calls
\* issued before the update.
UpdateConfig(retries, retryDelay, enableAuth) ==
    /\ config' = [retries |-> retries, retryDelay |-> retryDelay,
                  enableAuth |-> enableAuth]
    /\ req' = [q \in Slots |->
                 IF req[q].pc # "idle" THEN [req[q] EXCEPT !.touched = TRUE] ELSE req[q]]
    /\ UNCHANGED <<now, StoreVars, refreshPromise, issued, probe>>

\* The constructor: field initialisers, then loadTokensFromStorage
Construct(cfg, item) ==
    /\ config' = cfg
    /\ SetStore(loadTokensFromStorage(FreshFields(item)), "load")
    /\ refreshPromise' = NoPromise
    /\ req' = [q \in Slots |-> IdleReq]

ConfigsUpTo(maxRetries) ==
    {[retries |-> n, retryDelay |-> DefaultRetryDelay, enableAuth |-> TRUE] :
        n \in 0..maxRetries}
InitConfigs == ConfigsUpTo(MaxRetries)

\* The page is loaded again: a new client over the same localStorage
Reload ==
    /\ \E cfg \in InitConfigs : Construct(cfg, storage)
    /\ UNCHANGED <<now, issued, probe>>

Tick ==
    /\ now < MaxTicks * TickMs
    /\ now' = now + TickMs
    /\ UNCHANGED <<config, StoreVars, refreshPromise, req, issued, probe>>

\* What localStorage may hold when the page is first loaded: nothing, text
\* that is not JSON, an object without members, records an earlier session
\* saved (expired by now, or still fresh), and records lacking a field.
StaleAt == SkewMargin
FreshAt == 3600 * MsPerSecond
InitialItems ==
    { AbsentItem, GarbageItem, JSONText(<<>>),
      JSONstringify([accessToken |-> 1, refreshToken |-> 1, expiresAt |-> StaleAt]),
      JSONstringify([accessToken |-> 1, refreshToken |-> 1, expiresAt |-> FreshAt]),
      JSONText(<< <<"accessToken", 1>>, <<"expiresAt", StaleAt>> >>),
      JSONText(<< <<"accessToken", 1>>, <<"refreshToken", 1>> >>) }

NoProbe == [clock |-> 0, expiresAt |-> 0, expired |-> "unset"]

\* The state after `new ApiClient(cfg)` over a localStorage holding `item`
Constructed(cfg, item) ==
    LET s == loadTokensFromStorage(FreshFields(item))
    IN  /\ config = cfg
        /\ accessToken = s.accessToken
        /\ refreshToken = s.refreshToken
        /\ tokenExpiresAt = s.tokenExpiresAt
        /\ storage = s.storage
        /\ lastStoreOp = "load"
        /\ refreshPromise = NoPromise
        /\ req = [q \in Slots |-> IdleReq]

Init ==
    /\ now = 0
    /\ issued = 1
    /\ probe = NoProbe
    /\ \E cfg \in InitConfigs, item \in InitialItems : Constructed(cfg, item)

Next ==
    \/ \E p \in Slots, skipAuth \in BOOLEAN : Issue(p, skipAuth)
    \/ \E p \in Slots, o \in Outcomes : FetchSettle(p, o)
    \/ \E p \in Slots : DelayElapsed(p)
    \/ \E p \in Slots : Timeout(p)
    \/ \E expiresIn \in ExpiresInChoices, setItemOk \in BOOLEAN :
          SetAuthTokens(expiresIn, setItemOk)
    \/ ClearAuth
    \/ \E enableAuth \in BOOLEAN :      \* updateConfig({ enableAuth })
          UpdateConfig(config.retries, config.retryDelay, enableAuth)
    \/ Reload
    \/ Tick

Spec == Init /\ [][Next]_vars


\* ------------------------------------------- the single-call specification
\* One caller, with config.retries up to DeepRetries: the retry loop, its
\* timers, the timeout signal and updateConfig, over the same actions.
InitRetry ==
    /\ now = 0
    /\ issued = 1
    /\ probe = NoProbe
    /\ \E cfg \in ConfigsUpTo(DeepRetries), item \in InitialItems :
          Constructed(cfg, item)

NextRetry ==
    \/ \E skipAuth \in BOOLEAN : Issue(1, skipAuth)
    \/ \E o \in Outcomes : FetchSettle(1, o)
    \/ DelayElapsed(1)
    \/ Timeout(1)
    \/ \E retries \in 0..DeepRetries, retryDelay \in RetryDelayChoices,
          enableAuth \in BOOLEAN : UpdateConfig(retries, retryDelay, enableAuth)
    \/ ClearAuth
    \/ Tick

SpecRetry == InitRetry /\ [][NextRetry]_vars

\* --------------------------------------------- the expiry specification
\* isTokenExpired applied once to a clock reading and an expiry instant
\* drawn from the instants around the boundary expiresAt - SkewMargin.
ProbeClocks == 0..(ProbeSpan + 1)
ProbeExpiries == {0} \cup {SkewMargin + k : k \in 0..ProbeSpan}

InitExpiry ==
    /\ now = 0
    /\ issued = 1
    /\ Constructed([retries |-> 0, retryDelay |-> DefaultRetryDelay,
                    enableAuth |-> TRUE], AbsentItem)
    /\ probe \in [clock : ProbeClocks, expiresAt : ProbeExpiries, expired : {"unset"}]

Probe ==
    /\ probe.expired = "unset"
    /\ probe' = [probe EXCEPT !.expired =
                    IF isTokenExpired(probe.clock, probe.expiresAt) THEN "yes" ELSE "no"]
    /\ UNCHANGED <<now, config, StoreVars, refreshPromise, req, issued>>

NextExpiry == Probe

SpecExpiry == InitExpiry /\ [][NextExpiry]_vars

\* ------------------------------------------- the scheduling specification
\* Every caller's invocation under the event loop's scheduling: a pending
\* transport call settles (or its timeout timer fires) and a backoff timer
\* fires, each in finite time.  The callers, clearAuth and updateConfig act
\* whenever they choose.
Progress(p) ==
    \/ \E o \in Outcomes : FetchSettle(p, o)
    \/ DelayElapsed(p)
    \/ Timeout(p)

NextLive ==
    \/ \E p \in Slots : Issue(p, FALSE)
    \/ \E p \in Slots : Progress(p)
    \/ ClearAuth
    \/ \E retries \in 0..MaxRetries :     \* updateConfig({ retries })
          UpdateConfig(retries, config.retryDelay, config.enableAuth)

SpecLive ==
    /\ Init /\ [][NextLive]_vars
    /\ \A p \in Slots : WF_vars(Progress(p))

\* ---------------------------------------------- the session specification
\* The login and logout flows of AuthService next to ordinary requests:
\* logout() posts to auth/logout like any request and clears the
\* credentials when that request has settled; a login installs the
\* AuthResponse it obtained.
NextSession ==
    \/ \E p \in Slots : Logout(p)
    \/ \E p \in Slots : Issue(p, FALSE)
    \/ \E p \in Slots : Progress(p)
    \/ \E expiresIn \in ExpiresInChoices : SetAuthTokens(expiresIn, TRUE)

SpecSession == Init /\ [][NextSession]_vars

\* ================================================================ claims

\* C10: for every clock reading now and expiry instant expiresAt, isExpired
\* is true if and only if now >= expiresAt - skewMargin, the margin being
\* fixed at 5 minutes (300000 ms).
C10_ExpiredIffPastMargin ==
    probe.expired # "unset" =>
        ((probe.expired = "yes") <=> (probe.clock >= probe.expiresAt - 300000))

\* a probe at the boundary instant itself, which is expired
C10_Witness ==
    /\ probe.expired = "yes"
    /\ probe.clock = probe.expiresAt - 300000


\* C3: a logical call whose attempt receives a response with status 400-499
\* (401 and 403 included) ends at that attempt: the failure is returned at
\* once, with no backoff delay and no further transport call, whatever
\* config.retries is.
C3_ClientErrorEndsCall ==
    [][\A p \in Slots, o \in Outcomes :
          (/\ o.kind = "response" /\ o.status >= 400 /\ o.status <= 499
           /\ req[p].url = "resource"
           /\ FetchSettle(p, o))
          => (/\ req'[p].pc = "done"
              /\ req'[p].result.kind = "fail"
              /\ req'[p].calls = req[p].calls)]_vars

\* C4: a logical call that ends with a failure the loop retries (server,
\* network, timeout) has made exactly config.retries + 1 transport
\* attempts, and the failure it returns is that of its last attempt; a call
\* that ends with a success made no attempt after the successful one.  The
\* configuration is the one in force for the whole call (not touched).
C4_Exhausted(r) ==
    /\ r.pc = "done" /\ r.result.kind = "fail"
    /\ ~(r.result.err.name = "APIError"
         /\ r.result.err.status >= 400 /\ r.result.err.status <= 499)
C4_ResultOf(o) ==
    IF o.kind = "network" THEN Failed(TypeError)
    ELSE IF ~o.decodes THEN Failed(SyntaxError)
    ELSE IF o.status >= 200 /\ o.status <= 299 THEN Succeeded
    ELSE Failed(APIError(o.status))
C4_AttemptsAreRetriesPlusOne ==
    /\ [](\A p \in Slots :
            /\ (C4_Exhausted(req[p]) /\ ~req[p].touched)
                 => req[p].calls = config.retries + 1
            /\ (req[p].pc = "done" /\ req[p].result.kind = "ok" /\ ~req[p].touched)
                 => (req[p].calls = req[p].attempt + 1
                     /\ req[p].calls <= config.retries + 1))
    /\ [][\A p \in Slots :
            /\ \A o \in Outcomes :
                  (/\ req[p].url = "resource" /\ FetchSettle(p, o)
                   /\ req'[p].pc = "done")
                  => req'[p].result = C4_ResultOf(o)
            /\ (/\ req[p].url = "resource" /\ Timeout(p)
                /\ req'[p].pc = "done")
               => req'[p].result = Failed(TimeoutError)]_vars

\* a call that ended with a server failure after DeepRetries + 1 attempts
C4_Witness ==
    /\ config.retries = DeepRetries
    /\ req[1].pc = "done" /\ ~req[1].touched
    /\ req[1].result = Failed(APIError(500))
    /\ req[1].calls = DeepRetries + 1

\* C5: the backoff delay waited before attempt n (1-indexed, n >= 2) of a
\* logical call is retryBaseDelay * 2^(n-2): base, 2*base, 4*base, ...  The
\* n-1 attempts made so far are the slot's `calls`.
C5_BackoffDoubles ==
    \A p \in Slots :
        (req[p].pc = "delay" /\ ~req[p].touched)
        => LET n == req[p].calls + 1
           IN  /\ n >= 2
               /\ req[p].delay = config.retryDelay * Pow2(n - 2)

\* the delay before the fourth attempt: 4 * base
C5_Witness ==
    /\ req[1].pc = "delay" /\ ~req[1].touched
    /\ req[1].calls = 3
    /\ req[1].delay = 4 * config.retryDelay


\* The refresh operation started by slot p is in flight
Refreshing(p) == req[p].url = "/auth/refresh" /\ InFlight(req[p])
\* This step settles the refresh operation of slot p
RefreshSettles(p) ==
    /\ Refreshing(p)
    /\ req'[p].url # "/auth/refresh" /\ req'[p].pc = "fetch"
\* A caller that needs a credential finds the stored one expired, with a
\* refresh token
FindsExpired ==
    /\ config.enableAuth /\ accessToken # Null /\ refreshToken # Null
    /\ tokenExpiresAt # Undefined /\ now >= tokenExpiresAt - 300000

\* C1 (as amended): when N >= 2 requests find the stored credential expired
\* (auth enabled, refresh token present), exactly one refresh operation is
\* started: the first caller publishes the in-flight handle, every other
\* caller attaches to that handle, at most one refresh network call is
\* pending at any time, and all the callers resume together with the
\* outcome of that one operation.
C1_Structure ==
    /\ Cardinality({p \in Slots : Refreshing(p)}) <= 1
    /\ \A p \in Slots : Refreshing(p) <=> refreshPromise = p
    /\ \A q \in Slots : req[q].pc = "await" =>
          (refreshPromise # NoPromise /\ req[q].waits = refreshPromise)
C2_ValidTokenNoRefresh ==
    [][\A p \in Slots, skipAuth \in BOOLEAN :
          (/\ accessToken # Null /\ tokenExpiresAt # Undefined
           /\ now < tokenExpiresAt - 300000
           /\ Issue(p, skipAuth))
          => (/\ req'[p].pc = "fetch" /\ req'[p].url = "resource"
              /\ refreshPromise' = refreshPromise
              /\ (config.enableAuth /\ ~skipAuth) => req'[p].hdr = accessToken)]_vars

\* a request sent with the stored, unexpired token while no refresh exists
C2_Witness ==
    /\ req[1].pc = "fetch" /\ req[1].via = "direct" /\ req[1].url = "resource"
    /\ accessToken # Null /\ req[1].hdr = accessToken
    /\ tokenExpiresAt # Undefined /\ now < tokenExpiresAt - 300000
    /\ refreshPromise = NoPromise

\* C6 (as stated): when the refresh call itself fails with status 401, the
\* request that triggered the refresh fails with an AUTH failure and no
\* transport call is made for its intended resource.
C6_RequestFailsWithAuth ==
    [][\A p \in Slots :
          (Refreshing(p) /\ FetchSettle(p, Response(401, TRUE)))
          => (/\ req'[p].pc = "done"
              /\ req'[p].result = Failed(APIError(401))
              /\ req'[p].calls = 0)]_vars

\* C6 (as amended): when the refresh call itself fails with status 401, the
\* credentials are cleared and the request that triggered the refresh is
\* not failed: it is sent to its intended resource without an
\* Authorization header.
C6_RequestSentUnauthenticated ==
    [][\A p \in Slots :
          (Refreshing(p) /\ FetchSettle(p, Response(401, TRUE)))
          => (/\ req'[p].pc = "fetch" /\ req'[p].url = "resource"
              /\ req'[p].calls = 1
              /\ req'[p].hdr = Null
              /\ accessToken' = Null)]_vars

\* a request in transit to its resource after its refresh got a 401
C6_Witness ==
    /\ req[1].via = "refresh401"
    /\ req[1].pc = "fetch" /\ req[1].url = "resource" /\ req[1].hdr = Null

\* C7: when the refresh network call fails (a 4xx such as 401, or a
\* network, server, timeout failure after its retries), the access token,
\* the refresh token and the expiry are cleared from memory and the durable
\* record is removed, so isAuthenticated() is false afterwards.
C7_FailedRefreshClears ==
    [][\A p \in Slots :
          (RefreshSettles(p) /\ req'[p].via # "refreshed")
          => (/\ accessToken' = Null /\ refreshToken' = Null
              /\ tokenExpiresAt' = 0
              /\ storage' = AbsentItem
              /\ ~isAuthenticated')]_vars

\* a refresh that failed for another reason than a 401, after a retry
C7_Witness ==
    /\ req[1].via = "refreshFailed" /\ req[1].pc = "fetch"
    /\ accessToken = Null /\ storage = AbsentItem

\* C8: with an expired credential and a refresh token, when the refresh
\* call returns a fresh credential expiring in 3600 s, the client stores
\* it, isAuthenticated() becomes true, and the Authorization header of the
\* request that triggered the refresh carries the new access token (never
\* the old one), as does the header of the next request.
C8_NewTokenUsed ==
    [][\A p \in Slots :
          (/\ Refreshing(p) /\ req[p].pc = "fetch"
           /\ \E setItemOk \in BOOLEAN : RefreshReturned(p, 3600, setItemOk))
          => (/\ accessToken' = issued + 1
              /\ storage'.kind = "json"
              /\ Member(storage', "accessToken", Null) = issued + 1
              /\ isAuthenticated'
              /\ req'[p].hdr = issued + 1)]_vars

\* C9: after a credential is saved (setAuthTokens or a successful refresh),
\* a new client constructed over the same durable storage loads an
\* accessToken, refreshToken and expiresAt equal to the saved ones, and the
\* durable record holds exactly the members accessToken, refreshToken,
\* expiresAt.
C9_Loaded(item) == loadTokensFromStorage(FreshFields(item))
C11_BoundaryAsStated ==
    probe.expired # "unset" =>
        /\ (probe.clock = probe.expiresAt - 300000 - 1) => probe.expired = "yes"
        /\ (probe.clock = probe.expiresAt - 300000) => probe.expired = "yes"
        /\ (probe.clock = probe.expiresAt - 300000 + 1) => probe.expired = "no"

\* C11 (as amended): at the boundary, isExpired is false for now =
\* expiresAt - skewMargin - 1, true for now = expiresAt - skewMargin, and
\* true for now = expiresAt - skewMargin + 1.
C11_BoundaryValues ==
    probe.expired # "unset" =>
        /\ (probe.clock = probe.expiresAt - 300000 - 1) => probe.expired = "no"
        /\ (probe.clock = probe.expiresAt - 300000) => probe.expired = "yes"
        /\ (probe.clock = probe.expiresAt - 300000 + 1) => probe.expired = "yes"

\* a probe one millisecond before the boundary, which is not expired
C11_Witness ==
    /\ probe.expired = "no"
    /\ probe.clock = probe.expiresAt - 300000 - 1


\* A caller that needs a credential finds the stored one expired, without
\* a refresh token
C12_FindsExpiredNoRefreshToken ==
    /\ config.enableAuth /\ accessToken # Null /\ refreshToken = Null
    /\ tokenExpiresAt # Undefined /\ now >= tokenExpiresAt - 300000

\* C12: when a request finds the credential expired and no refresh token is
\* stored, the credential lookup fails at once: no refresh network call is
\* issued (the slot never holds a /auth/refresh request) and no in-flight
\* refresh handle is published or awaited.
C12_NoRefreshTokenNoCall ==
    [][\A p \in Slots :
          (C12_FindsExpiredNoRefreshToken /\ Issue(p, FALSE))
          => (/\ req'[p].via = "noRefreshToken"
              /\ req'[p].url # "/auth/refresh"
              /\ req'[p].pc # "await" /\ req'[p].waits = NoPromise
              /\ refreshPromise' = refreshPromise
              /\ \A q \in Slots : q # p => req'[q] = req[q])]_vars

\* a request whose lookup found an expired credential and no refresh token
C12_Witness ==
    /\ req[1].via = "noRefreshToken" /\ req[1].pc = "fetch"
    /\ refreshPromise = NoPromise /\ refreshToken = Null
    /\ \A q \in Slots : req[q].url # "/auth/refresh"


\* C13: whenever a refresh fails, be it that the refresh call failed or
\* that no refresh token is available, all stored credentials are cleared:
\* no access token is left in memory or in durable storage, so that later
\* requests do not enter the refresh path again.
C13_FailedRefreshLogsOut ==
    [][\A p \in Slots :
          /\ (RefreshSettles(p) /\ req'[p].via # "refreshed")
             => (accessToken' = Null /\ storage' = AbsentItem)
          /\ (C12_FindsExpiredNoRefreshToken /\ Issue(p, FALSE))
             => (/\ accessToken' = Null /\ refreshToken' = Null
                 /\ storage' = AbsentItem
                 /\ ~C12_FindsExpiredNoRefreshToken')]_vars


\* the credential lookup of a request issued now returns no credential
C14_LookupGivesNone ==
    \/ ~config.enableAuth
    \/ accessToken = Null
    \/ (isTokenExpired(now, tokenExpiresAt) /\ refreshToken = Null)

\* C14: if, after the credential lookup (a failed refresh included), no
\* credential is available, the request is not failed for that reason: it
\* is sent to its intended resource without an Authorization header, and
\* its outcome is what the transport and the server return.
C14_ProceedsUnauthenticated ==
    [][\A p \in Slots :
          /\ (C14_LookupGivesNone /\ Issue(p, FALSE))
             => (/\ req'[p].pc = "fetch" /\ req'[p].url = "resource"
                 /\ req'[p].hdr = Null /\ req'[p].calls = 1
                 /\ req'[p].result = NoResult)
          /\ (RefreshSettles(p) /\ req'[p].via # "refreshed")
             => \A q \in Slots :
                   (q = p \/ (req[q].pc = "await" /\ req[q].waits = p))
                   => (/\ req'[q].pc = "fetch" /\ req'[q].url = "resource"
                       /\ req'[q].hdr = Null /\ req'[q].calls = 1
                       /\ req'[q].result = NoResult)
          /\ (/\ req[p].url = "resource" /\ req[p].hdr = Null
              /\ req[p].pc = "fetch" /\ req'[p].pc = "done")
             => \A o \in Outcomes :
                FetchSettle(p, o)
                => req'[p].result =
                      (IF o.kind = "network" THEN Failed(TypeError)
                       ELSE IF ~o.decodes THEN Failed(SyntaxError)
                       ELSE IF o.status \in 200..299 THEN Succeeded
                       ELSE Failed(APIError(o.status)))]_vars

\* two requests in transit without a credential: one resumed after its
\* refresh failed, one issued after the credentials were cleared
C14_Witness ==
    /\ config.enableAuth
    /\ req[2].via \in {"refresh401", "refreshFailed"}
    /\ req[2].pc = "fetch" /\ req[2].url = "resource" /\ req[2].hdr = Null
    /\ req[1].via = "noCredential"
    /\ req[1].pc = "fetch" /\ req[1].url = "resource" /\ req[1].hdr = Null


\* C15: when authentication is disabled in the configuration, or the
\* request has skipAuth set, the request starts no refresh, raises no
\* credential error and is sent without an Authorization header, whether
\* the stored credential is valid, expired or absent.
C15_NoAuthNoLookup ==
    [][\A p \in Slots, skipAuth \in BOOLEAN :
          ((~config.enableAuth \/ skipAuth) /\ Issue(p, skipAuth))
          => (/\ req'[p].pc = "fetch" /\ req'[p].url = "resource"
              /\ req'[p].hdr = Null /\ req'[p].calls = 1
              /\ req'[p].result = NoResult
              /\ refreshPromise' = refreshPromise
              /\ \A q \in Slots : q # p => req'[q] = req[q]
              /\ accessToken' = accessToken /\ refreshToken' = refreshToken
              /\ tokenExpiresAt' = tokenExpiresAt /\ storage' = storage)]_vars

\* a request with skipAuth in transit without a header while a valid
\* credential is stored and authentication is enabled
C15_Witness ==
    /\ config.enableAuth /\ ~req[1].touched
    /\ req[1].via = "skipped" /\ req[1].pc = "fetch" /\ req[1].hdr = Null
    /\ accessToken # Null /\ isAuthenticated


\* C16: a change made by updateConfig while a logical call is in flight
\* does not affect that call: its backoff delays and its number of attempts
\* are those of the configuration in force when the call was issued.
C16_UpdateLeavesCallAlone ==
    [][\A p \in Slots :
          /\ (InFlight(req[p]) /\ req[p].pc # "delay" /\ req'[p].pc = "delay")
             => req'[p].delay = req[p].cfg.retryDelay * Pow2(req'[p].calls - 1)
          /\ (InFlight(req[p]) /\ InFlight(req'[p]))
             => req'[p].calls <= req[p].cfg.retries + 1
          /\ (/\ InFlight(req[p]) /\ req[p].url = "resource"
              /\ req'[p].pc = "done" /\ C4_Exhausted(req'[p]))
             => req'[p].calls = req[p].cfg.retries + 1]_vars


\* C17: a PARSE failure (the response body cannot be decoded as its
\* declared content type) is never retried: it propagates to the caller on
\* its first occurrence, whatever the response status.
C17_ParseFailureEndsCall ==
    [][\A p \in Slots, o \in Outcomes :
          (/\ o.kind = "response" /\ ~o.decodes
           /\ req[p].url = "resource"
           /\ FetchSettle(p, o))
          => (/\ req'[p].pc = "done"
              /\ req'[p].result = Failed(SyntaxError)
              /\ req'[p].calls = req[p].calls)]_vars


\* the durable record is a well-formed credential record
C18_WellFormed(item) ==
    /\ item.kind = "json"
    /\ {"accessToken", "refreshToken", "expiresAt"} \subseteq Keys(item)

\* C18: on load at construction, an absent durable record leaves the
\* client without a credential, and a malformed one (text that does not
\* parse, or a value lacking accessToken, refreshToken or expiresAt) is
\* discarded: afterwards no credential is held in memory and
\* isAuthenticated() is false.
C18_MalformedRecordDiscarded ==
    (lastStoreOp = "load" /\ ~C18_WellFormed(storage))
    => (/\ accessToken = Null /\ refreshToken = Null
        /\ ~isAuthenticated)


\* C19: in every reachable state, if an access token is present then
\* expiresAt is present as a number and equals the instant of a save (an
\* instant the clock has shown) plus a granted lifetime, expiresIn * 1000.
C19_ExpiryConsistent ==
    accessToken # Null
    => (/\ tokenExpiresAt # Undefined
        /\ \E k \in 0..MaxTicks, expiresIn \in ExpiresInChoices :
              /\ k * TickMs <= now
              /\ tokenExpiresAt = (k * TickMs) + (expiresIn * 1000))


\* C20: the stored credential is written only by the refresh operation
\* and by the explicit setAuthTokens / clearAuth operations (and loaded by
\* the constructor of a new client): issuing a request, and every attempt
\* of a request to its intended resource, whatever its outcome, leave the
\* access token, the refresh token, the expiry and the durable record
\* unchanged.
C20_RequestsLeaveStoreAlone ==
    [][/\ \A p \in Slots :
            /\ ((/\ req[p].url = "resource" /\ req[p].pc \in {"fetch", "delay"}
                 /\ req'[p] # req[p]
                 /\ \/ DelayElapsed(p) \/ Timeout(p)
                    \/ \E o \in Outcomes : FetchSettle(p, o))
                => CurStore' = CurStore)
            /\ ((req[p].pc \in {"idle", "done"} /\ req'[p].pc \notin {"idle", "done"})
                => CurStore' = CurStore)
       /\ (CurStore' # CurStore)
          => \/ \E p \in Slots : RefreshSettles(p)
             \/ \E expiresIn \in ExpiresInChoices : SetAuthTokens(expiresIn, TRUE)
             \/ ClearAuth
             \/ Reload]_vars

\* a request that was answered 401 and one that exhausted its retries on
\* 500, the credential still stored and valid
C20_Witness ==
    /\ req[1].pc = "done" /\ req[1].result = Failed(APIError(401))
    /\ req[2].pc = "done" /\ req[2].result = Failed(APIError(500))
    /\ req[2].calls = 2
    /\ isAuthenticated /\ storage.kind = "json"
    /\ Member(storage, "accessToken", Null) = accessToken


\* the errors makeRequest can reject with
C21_Errors ==
    {APIError(st) : st \in Statuses} \cup {SyntaxError, TypeError, TimeoutError}

\* C21: every logical call eventually settles, given that each transport
\* call and each timer eventually settles: it ends with a success or with a
\* failure, never both and never neither, after a finite number of
\* attempts, and a call that ends in failure delivers a failure value.
C21_EveryCallSettles ==
    /\ \A p \in Slots : InFlight(req[p]) ~> (req[p].pc = "done")
    /\ [](\A p \in Slots :
            /\ req[p].pc = "done"
               => (/\ req[p].result \in {Succeeded} \cup {Failed(e) : e \in C21_Errors}
                   /\ req[p].calls \in 1..(MaxRetries + 1))
            /\ InFlight(req[p]) => req[p].result = NoResult)

\* one call ended with a success, the other with the failure of its timeout
C21_Witness ==
    /\ req[1].pc = "done" /\ req[1].result = Succeeded
    /\ req[2].pc = "done" /\ req[2].result = Failed(TimeoutError)


\* C22: after AuthService.logout() settles, whether its logout request
\* succeeded or failed, the client holds no credential: access token,
\* refresh token and durable record are cleared and isAuthenticated() is
\* false.
C22_LogoutClears ==
    [][\A p \in Slots :
          (/\ req[p].dest = "auth/logout" /\ InFlight(req[p])
           /\ req'[p].pc = "done")
          => (/\ req'[p].result # NoResult
              /\ accessToken' = Null /\ refreshToken' = Null
              /\ tokenExpiresAt' = 0 /\ storage' = AbsentItem
              /\ ~isAuthenticated')]_vars

\* a logout whose request failed on the server after a login in this run:
\* nothing is left of the credential
C22_Witness ==
    /\ req[1].dest = "auth/logout" /\ req[1].pc = "done"
    /\ req[1].result = Failed(APIError(500))
    /\ issued = 2 /\ lastStoreOp = "clear"
    /\ accessToken = Null /\ storage = AbsentItem


\* C23: the in-flight refresh handle is non-empty exactly from the start
\* of a refresh until that refresh has settled: it is never cleared while
\* the refresh network call is pending, it is cleared by the step in which
\* the refresh settles (success or failure) and by no other, and every
\* refresh settles in finite time, so that a later expired credential can
\* start a new refresh.
C23_HandleLifetime ==
    /\ [](/\ refreshPromise \in Slots \cup {NoPromise}
          /\ \A p \in Slots : Refreshing(p) <=> refreshPromise = p)
    /\ [][\A p \in Slots :
            /\ RefreshSettles(p) => refreshPromise' = NoPromise
            /\ (refreshPromise = p /\ refreshPromise' # p) => RefreshSettles(p)
            /\ (refreshPromise # p /\ refreshPromise' = p)
               => (/\ refreshPromise = NoPromise
                   /\ req[p].pc \in {"idle", "done"}
                   /\ req'[p].url = "/auth/refresh" /\ req'[p].calls = 1)]_vars
    /\ (refreshPromise # NoPromise) ~> (refreshPromise = NoPromise)

\* a second refresh in flight after an earlier one settled with a success
C23_Witness ==
    /\ issued = 2 /\ lastStoreOp = "save"
    /\ refreshPromise = 1 /\ Refreshing(1)


\* C24: after a retryable failure and its backoff delay the request is
\* constructed afresh, credential lookup included, so the retry attempt
\* carries the credential that is valid at the time of that attempt (or
\* none when none is stored), not the one captured before attempt 1.
C24_RetryLooksUpAgain ==
    [][\A p \in Slots :
          (/\ req[p].url = "resource" /\ req[p].via # "skipped"
           /\ req[p].pc = "delay" /\ req'[p].pc = "fetch"
           /\ config.enableAuth /\ getValidToken.act = "return")
          => req'[p].hdr = getValidToken.token]_vars


\* C25: every attempt of a logical call, each retry included, carries its
\* own timeout; a timed-out attempt is a retryable failure (a backoff
\* follows while attempts are left), and the attempt that follows it is
\* given the full timeout: its transport call is pending on a signal that
\* is not aborted.
C25_RetryGetsFullTimeout ==
    [][\A p \in Slots :
          /\ (/\ req[p].pc = "fetch" /\ Timeout(p)
              /\ req[p].attempt < config.retries)
             => req'[p].pc = "delay"
          /\ (/\ req[p].pc = "delay" /\ DelayElapsed(p)
              /\ LoopGuard(config, req[p].attempt))
             => (/\ req'[p].pc = "fetch" /\ ~req'[p].aborted
                 /\ req'[p].calls = req[p].calls + 1)]_vars


\* C26: the settlement of a refresh never overrides a later explicit
\* credential write.  A refresh starts only over a stored, expired access
\* token: while it is in flight, an empty store is what clearAuth left and
\* a valid credential is what setAuthTokens left, and the store still
\* holds that when the refresh settles.
C26_RefreshKeepsExplicitWrite ==
    [][\A p \in Slots :
          /\ (Refreshing(p) /\ accessToken = Null /\ RefreshSettles(p))
             => (accessToken' = Null /\ refreshToken' = Null
                 /\ storage' = AbsentItem)
          /\ (Refreshing(p) /\ isAuthenticated /\ RefreshSettles(p))
             => CurStore' = CurStore]_vars


\* C27: after every completed store operation (load, save by
\* setAuthTokens or by a refresh, clear) the in-memory credential and the
\* durable record agree: both hold the same accessToken, refreshToken and
\* expiresAt, or the memory holds no credential and the durable key is
\* absent; a save whose durable write fails changes neither copy.
C27_Agree ==
    \/ /\ storage.kind = "json"
       /\ accessToken = Member(storage, "accessToken", Null)
       /\ refreshToken = Member(storage, "refreshToken", Null)
       /\ tokenExpiresAt = Member(storage, "expiresAt", Undefined)
    \/ /\ storage = AbsentItem
       /\ accessToken = Null /\ refreshToken = Null
C27_MemoryAndRecordAgree ==
    /\ [](lastStoreOp \in {"load", "save", "clear"} /\ C27_Agree)
    /\ [][/\ \A expiresIn \in ExpiresInChoices :
              SetAuthTokens(expiresIn, FALSE) => CurStore' = CurStore
         /\ \A p \in Slots, expiresIn \in ExpiresInChoices :
              (Refreshing(p) /\ req[p].pc = "fetch"
               /\ RefreshReturned(p, expiresIn, FALSE)) => CurStore' = CurStore]_vars

\* after a save whose durable write failed: the credential issued last is
\* in neither copy, the earlier one is in both
C27_Witness ==
    /\ lastStoreOp = "save" /\ issued = 2
    /\ accessToken = 1 /\ storage.kind = "json"
    /\ Member(storage, "accessToken", Null) = 1
    /\ Member(storage, "expiresAt", Undefined) = tokenExpiresAt


\* This step builds the headers of slot p's request to its own url: the
\* caller's makeRequest passes its credential lookup and makes its first
\* fetch
C28_Attaches(p) ==
    /\ req[p].pc \in {"idle", "done", "await"} \/ Refreshing(p)
    /\ req'[p].pc = "fetch" /\ req'[p].url # "/auth/refresh"
    /\ req'[p].calls = 1

\* C28: whenever a request is sent with an Authorization header, the
\* token in that header is the currently stored access token and it is
\* not expired (now < expiresAt - 5 minutes) at the moment it is attached,
\* also after a refresh whose durable save failed or whose granted
\* lifetime is at most 5 minutes.
C28_AttachedTokenIsValid ==
    [][\A p \in Slots :
          (C28_Attaches(p) /\ req'[p].hdr # Null)
          => (/\ req'[p].hdr = accessToken'
              /\ tokenExpiresAt' # Undefined
              /\ now' < tokenExpiresAt' - 300000)]_vars


\* C29: after a refresh succeeds, the stored credential is not expired, so
\* a request issued immediately afterwards starts no other refresh,
\* whatever lifetime expiresIn > 0 was granted.
C29_NoRefreshAfterRefresh ==
    [][\A p \in Slots :
          (/\ Refreshing(p) /\ req[p].pc = "fetch"
           /\ \E expiresIn \in ExpiresInChoices, setItemOk \in BOOLEAN :
                 RefreshReturned(p, expiresIn, setItemOk))
          => (/\ accessToken' # Null /\ tokenExpiresAt' # Undefined
              /\ now' < tokenExpiresAt' - 300000
              /\ ~FindsExpired')]_vars


\* a response that is a success or a 4xx
C30_SuccessOr4xx(o) ==
    /\ o.kind = "response"
    /\ (o.status \in 200..299 \/ o.status \in 400..499)

\* C30: one refresh operation sends its /auth/refresh request through the
\* retry loop of any request, without auth injection: a response that is
\* a success or a 4xx ends it with no further network call, it makes at
\* most maxRetries + 1 calls when it fails with 5xx or network errors, the
\* credentials are cleared only when its last attempt has failed, and the
\* refresh request triggers no credential lookup and no nested refresh.
C30_RefreshThroughRetryLoop ==
    /\ [](\A p \in Slots :
            req[p].url = "/auth/refresh"
            => (/\ req[p].hdr = Null /\ req[p].pc \in {"fetch", "delay"}
                /\ refreshPromise = p
                /\ ~req[p].touched => req[p].calls <= config.retries + 1))
    /\ [][\A p \in Slots :
            /\ \A o \in Outcomes :
                  (/\ Refreshing(p) /\ req[p].pc = "fetch"
                   /\ C30_SuccessOr4xx(o) /\ FetchSettle(p, o))
                  => RefreshSettles(p)
            /\ (Refreshing(p) /\ req'[p].url = "/auth/refresh" /\ req'[p] # req[p])
               => CurStore' = CurStore]_vars


====
